---- MODULE Spec2Model ----
(***************************************************************************)
(* A model of the weather analysis CLI tool: the analyzer                  *)
(* (src/analyzer.py), the data handler (src/data_handler.py), the fetch    *)
(* client (src/weather_api.py), the report generator                      *)
(* (src/report_generator.py) and the commands (src/weather_cli.py).        *)
(*                                                                         *)
(* Numbers.  Every numeric field (temperature, humidity, wind_speed) is a  *)
(* fixed-point number held in hundredths: 10.06 is 1006, a humidity of 65  *)
(* is 6500.  A value rounded to one decimal is a multiple of 10.           *)
(*                                                                         *)
(* Strings.  A string of the program (a city, a description, a path) is a  *)
(* sequence of one-character strings, so that lower(), title(), strip(),   *)
(* replace() and the substring test `word in description` are computed     *)
(* character by character.  Dictionary keys and message tags are TLA+      *)
(* strings.                                                                *)
(*                                                                         *)
(* Dictionaries.  A Python dict with string keys is a function from the    *)
(* keys to the values; {} is the function with the empty domain.  The      *)
(* weather distribution, whose key order is part of the result, is the     *)
(* sequence of its (key, count) items.                                     *)
(***************************************************************************)
EXTENDS Integers, Sequences, FiniteSets, TLC

VARIABLES
    data,         \* WeatherAnalyzer.data: the rows of the DataFrame, in order
    TEMP_RANGES,  \* config.TEMP_RANGES: the thresholds of the range buckets
    result,       \* the value returned by the last analyzer call
    fs,           \* the files on disk: path -> content, or Absent
    data_file,    \* DataHandler.data_file
    last_save,    \* the last save call, when no other call followed it
    last_load,    \* the last load call and the save call it followed
    pc,           \* the position of the running command
    command,      \* the command run: fetch, analyze or run
    format,       \* the --format option
    show_table,   \* the --show-table flag
    API_KEY,      \* config.API_KEY: the key, or NoKey
    cities,       \* the city list being fetched
    idx,          \* fetch_multiple_cities: the loop's position i
    weather_data, \* fetch_multiple_cities: the records collected
    requests,     \* the requests made, each with the response it got
    exit_code,    \* the exit code, once pc is "exited"
    echoed,       \* the messages written to the console, in order
    events        \* the failures that have occurred during the run

analyzer_vars == <<data, TEMP_RANGES, result>>
handler_vars == <<fs, data_file, last_save, last_load>>
cli_vars == <<pc, command, format, show_table, API_KEY, cities, idx,
              weather_data, requests, exit_code, echoed, events>>

----------------------------------------------------------------------------
(* Bounds of the model. *)

\* The longest record set of the statistics specification.
MaxStatsLen == 3
\* The longest record set of the categorization specification.
MaxCatLen == 3
\* The longest record set of the temperature range specification.
MaxRangeLen == 2
\* The longest record set of the whole-analyzer specification.
MaxLen == 2
\* The longest record set handed to the data handler.
MaxStoreLen == 2
\* The most lines of a cities file.
MaxCityLines == 2
\* The longest city list handed to fetch_multiple_cities.
MaxApiCities == 2
MaxMissingLen == 2
MaxReportLen == 2

----------------------------------------------------------------------------
(* Characters and strings. *)

UpperCase == <<"A","B","C","D","E","F","G","H","I","J","K","L","M",
               "N","O","P","Q","R","S","T","U","V","W","X","Y","Z">>
LowerCase == <<"a","b","c","d","e","f","g","h","i","j","k","l","m",
               "n","o","p","q","r","s","t","u","v","w","x","y","z">>

\* The lower-case form of each upper-case letter, and the reverse.
ToLower ==
    [u \in {UpperCase[k] : k \in DOMAIN UpperCase} |->
        LowerCase[CHOOSE k \in DOMAIN UpperCase : UpperCase[k] = u]]
ToUpper ==
    [l \in {LowerCase[k] : k \in DOMAIN LowerCase} |->
        UpperCase[CHOOSE k \in DOMAIN LowerCase : LowerCase[k] = l]]

IsUpper(ch) == ch \in DOMAIN ToLower
IsLower(ch) == ch \in DOMAIN ToUpper
IsCased(ch) == IsUpper(ch) \/ IsLower(ch)

CharLower(ch) == IF IsUpper(ch) THEN ToLower[ch] ELSE ch

CharUpper(ch) == IF IsLower(ch) THEN ToUpper[ch] ELSE ch

\* str.lower()
lower(s) == [k \in DOMAIN s |-> CharLower(s[k])]

\* str.title(): a cased character is upper-cased when it starts a word (the
\* character before it is not cased) and lower-cased otherwise.
title(s) ==
    [k \in DOMAIN s |->
        IF k > 1 /\ IsCased(s[k - 1]) THEN CharLower(s[k]) ELSE CharUpper(s[k])]

\* word in description
Contains(s, word) ==
    \E k \in 1..(Len(s) - Len(word) + 1) :
        SubSeq(s, k, k + Len(word) - 1) = word

\* any(word in description for word in words)
any_in(words, s) == \E k \in DOMAIN words : Contains(s, words[k])

----------------------------------------------------------------------------
(* The keyword lists of categorize_weather. *)

KW_clear    == <<"c","l","e","a","r">>
KW_sunny    == <<"s","u","n","n","y">>
KW_rain     == <<"r","a","i","n">>
KW_drizzle  == <<"d","r","i","z","z","l","e">>
KW_shower   == <<"s","h","o","w","e","r">>
KW_cloud    == <<"c","l","o","u","d">>
KW_overcast == <<"o","v","e","r","c","a","s","t">>
KW_snow     == <<"s","n","o","w">>
KW_blizzard == <<"b","l","i","z","z","a","r","d">>

ClearWords  == <<KW_clear, KW_sunny>>
RainWords   == <<KW_rain, KW_drizzle, KW_shower>>
CloudsWords == <<KW_cloud, KW_overcast>>
SnowWords   == <<KW_snow, KW_blizzard>>

CategoryKeys == {"clear", "rain", "clouds", "snow", "other"}
CategoryOrder == <<"clear", "rain", "clouds", "snow", "other">>

----------------------------------------------------------------------------
(* Descriptions the record sets are drawn from. *)

D_ClearSky       == <<"C","l","e","a","r"," ","S","k","y">>
D_clear_sky      == <<"c","l","e","a","r"," ","s","k","y">>
D_LightRain      == <<"L","i","g","h","t"," ","R","a","i","n">>
D_CloudyWithRain == <<"C","l","o","u","d","y"," ","W","i","t","h"," ","R","a","i","n">>
D_Overcast       == <<"O","v","e","r","c","a","s","t">>
D_SnowShowers    == <<"S","n","o","w"," ","S","h","o","w","e","r","s">>
D_HeavySnow      == <<"H","e","a","v","y"," ","S","n","o","w">>
D_Mist           == <<"M","i","s","t">>

Descriptions ==
    {D_ClearSky, D_clear_sky, D_LightRain, D_CloudyWithRain, D_Overcast,
     D_SnowShowers, D_HeavySnow, D_Mist}

\* Cities, a country code and a timestamp.
CityA == <<"A">>
CityB == <<"B">>
CityC == <<"C">>
Cities == {CityA, CityB}

GB == <<"G","B">>

\* time.strftime('%Y-%m-%d %H:%M:%S') at some moment.
Timestamp ==
    <<"2","0","2","4","-","0","1","-","0","1"," ","0","0",":","0","0",":","0","0">>

----------------------------------------------------------------------------
(* Sequences and reductions, as pandas computes them. *)

SeqsUpTo(S, n) == UNION {[1..k -> S] : k \in 0..n}

\* df[field]
Column(df, field) == [k \in DOMAIN df |-> df[k][field]]

\* The float NaN of a numeric column, where a record has no value: a number
\* apart from every measurement, never used in arithmetic.
nan == -999999

\* pd.isna, Series.dropna(): the reductions below skip NaN (skipna=True is
\* the default), and over nothing but NaN they give NaN.
isna(v) == v = nan
dropna(col) == SelectSeq(col, LAMBDA v : ~isna(v))

\* A comparison with NaN is false.
Greater(a, b) == ~isna(a) /\ a > b

\* Series.max(), Series.min()
SeriesMax(col) ==
    LET present == dropna(col)
    IN  IF present = <<>> THEN nan
        ELSE CHOOSE v \in {present[k] : k \in DOMAIN present} :
                 \A k \in DOMAIN present : present[k] <= v
SeriesMin(col) ==
    LET present == dropna(col)
    IN  IF present = <<>> THEN nan
        ELSE CHOOSE v \in {present[k] : k \in DOMAIN present} :
                 \A k \in DOMAIN present : present[k] >= v

\* Series.idxmax(), Series.idxmin(): the label of the first occurrence of the
\* extreme value.  The labels are the row positions.
IdxMaxLast(col) == CHOOSE k \in DOMAIN col :
                       /\ col[k] = SeriesMax(col)
                       /\ \A j \in DOMAIN col : j > k => col[j] # SeriesMax(col)
idxmax(col) == CHOOSE k \in DOMAIN col :
                   /\ col[k] = SeriesMax(col)
                   /\ \A j \in DOMAIN col : j < k => col[j] # SeriesMax(col)
idxmin(col) == CHOOSE k \in DOMAIN col :
                   /\ col[k] = SeriesMin(col)
                   /\ \A j \in DOMAIN col : j < k => col[j] # SeriesMin(col)

RECURSIVE SeriesSum(_)
SeriesSum(col) == IF col = <<>> THEN 0 ELSE Head(col) + SeriesSum(Tail(col))

\* The values of a series in non-decreasing order (insertion sort).
RECURSIVE InsertSorted(_, _)
InsertSorted(v, sorted) ==
    IF sorted = <<>> THEN <<v>>
    ELSE IF v <= Head(sorted) THEN <<v>> \o sorted
    ELSE <<Head(sorted)>> \o InsertSorted(v, Tail(sorted))

RECURSIVE SortValues(_)
SortValues(col) ==
    IF col = <<>> THEN <<>> ELSE InsertSorted(Head(col), SortValues(Tail(col)))

\* round(num / den, 1) of a value num/den given in hundredths, den > 0: the
\* nearest multiple of 10 hundredths, a tie going to the even tenth (numpy's
\* round half to even).
RoundNoDigits(num, den) == 100 * ((2 * num + 100 * den) \div (200 * den))
round1(num, den) ==
    LET q == num \div (10 * den)
        r == num - q * (10 * den)
    IN  IF 2 * r < 10 * den THEN 10 * q
        ELSE IF 2 * r > 10 * den THEN 10 * (q + 1)
        ELSE IF q % 2 = 0 THEN 10 * q ELSE 10 * (q + 1)

\* round(Series.mean(), 1)
RoundedMean(col) ==
    LET present == dropna(col)
    IN  IF present = <<>> THEN nan
        ELSE round1(SeriesSum(present), Len(present))

\* round(Series.median(), 1): the middle value of the sorted series, or the
\* mean of the two middle values.
RoundedMedian(col) ==
    LET s == SortValues(dropna(col))
        n == Len(s)
    IN  IF n = 0 THEN nan
        ELSE IF n % 2 = 1 THEN round1(s[(n + 1) \div 2], 1)
        ELSE round1(s[n \div 2] + s[n \div 2 + 1], 2)

----------------------------------------------------------------------------
(* DataHandler: files and their contents. *)

\* The value of a Python None where a record is expected, and of a path
\* argument left out (None and the empty string are both false in
\* `filename or ...`).
None == [none |-> TRUE]
NoFilename == << >>

\* What a loader returns: the rows it read, or None.
Loaded(rows) == [is_none |-> FALSE, rows |-> rows]
NotLoaded == [is_none |-> TRUE, rows |-> << >>]

\* The float NaN pandas puts where a cell is missing: a value that is no
\* string (every element of a string is one character).
NaN == << "nan" >>

Absent == [fmt |-> "absent"]

P_csv  == <<".","c","s","v">>
P_json == <<".","j","s","o","n">>

\* Data file names: the default's form, and one without '.csv'.
WCsv  == <<"w">> \o P_csv
WJson == <<"w">> \o P_json
DataFiles == {WCsv, WJson}

\* str.replace(old, new): every occurrence of old, left to right.
RECURSIVE replace(_, _, _)
replace(s, old, new) ==
    IF Len(s) < Len(old) THEN s
    ELSE IF SubSeq(s, 1, Len(old)) = old
         THEN new \o replace(SubSeq(s, Len(old) + 1, Len(s)), old, new)
         ELSE <<Head(s)>> \o replace(Tail(s), old, new)

\* filename or self.data_file.replace('.csv', '.json')
json_file(path, filename) ==
    IF filename # NoFilename THEN filename ELSE replace(path, P_csv, P_json)

\* The columns of pd.DataFrame(weather_data): the keys of the records, in
\* the order _parse_weather_data gives them.
Columns ==
    <<"city", "temperature", "humidity", "description", "wind_speed",
      "country", "timestamp">>

\* The fields whose values are numbers.
NumericFields == {"temperature", "humidity", "wind_speed"}

\* A CSV cell is text without type: the numeral of a number, or the
\* characters of a string (the strings of the record sets are no numerals).
CsvCell(field, v) ==
    IF field \in NumericFields
    THEN [numeral |-> TRUE, value |-> v]
    ELSE [numeral |-> FALSE, chars |-> v]

\* DataFrame.to_csv(index=False): the header and one line per row.
to_csv(records) ==
    [fmt    |-> "csv",
     header |-> Columns,
     rows   |-> [k \in DOMAIN records |->
                    [j \in DOMAIN Columns |->
                        CsvCell(Columns[j], records[k][Columns[j]])]]]

\* The cell texts pd.read_csv takes for a missing value (its default
\* na_values).
NA_VALUES ==
    { << >>, <<"#","N","/","A">>, <<"#","N","A">>, <<"<","N","A",">">>,
      <<"N","/","A">>, <<"N","A">>, <<"N","U","L","L">>, <<"N","a","N">>,
      <<"N","o","n","e">>, <<"n","/","a">>, <<"n","a","n">>,
      <<"n","u","l","l">>, <<"-","N","a","N">>, <<"-","n","a","n">> }

\* The value pd.read_csv gives a cell: the number of a numeral, NaN for a
\* missing-value text, the text itself otherwise.
CsvValue(cell) ==
    IF cell.numeral THEN cell.value
    ELSE IF cell.chars \in NA_VALUES THEN NaN
    ELSE cell.chars

\* The position of column c in a header.
FirstColumn(header, c) == CHOOSE j \in DOMAIN header : header[j] = c

\* pd.read_csv: the rows of the frame, each a mapping from the header's
\* column names to the cells' values.
read_csv(content) ==
    [k \in DOMAIN content.rows |->
        [c \in {content.header[j] : j \in DOMAIN content.header} |->
            CsvValue(content.rows[k][FirstColumn(content.header, c)])]]

\* A JSON token carries its type: a string is quoted, a number is not.
JsonToken(field, v) ==
    IF field \in NumericFields
    THEN [quoted |-> FALSE, value |-> v]
    ELSE [quoted |-> TRUE, chars |-> v]

JsonValue(token) == IF token.quoted THEN token.chars ELSE token.value

\* json.dump(weather_data, f, indent=2, ensure_ascii=False)
json_dump(records) ==
    [fmt   |-> "json",
     items |-> [k \in DOMAIN records |->
                   [f \in DOMAIN records[k] |-> JsonToken(f, records[k][f])]]]

\* json.load(f)
json_load(content) ==
    [k \in DOMAIN content.items |->
        [f \in DOMAIN content.items[k] |-> JsonValue(content.items[k][f])]]

\* save_to_csv: [ret, fs].  Nothing is written for an empty list, and an
\* exception of to_csv (io_ok false: the file cannot be opened for writing)
\* is caught.
save_to_csv(files, path, records, io_ok) ==
    IF records = <<>> THEN [ret |-> FALSE, fs |-> files]
    ELSE IF ~io_ok THEN [ret |-> FALSE, fs |-> files]
    ELSE [ret |-> TRUE, fs |-> [files EXCEPT ![path] = to_csv(records)]]

\* save_to_json: [ret, fs].
save_to_json(files, path, records, filename, io_ok) ==
    IF records = <<>> THEN [ret |-> FALSE, fs |-> files]
    ELSE IF ~io_ok THEN [ret |-> FALSE, fs |-> files]
    ELSE [ret |-> TRUE,
          fs  |-> [files EXCEPT ![json_file(path, filename)] =
                      json_dump(records)]]

\* load_from_csv: the frame, or None when the file is missing or read_csv
\* raises (a file of JSON text is no table: its lines differ in their
\* number of fields).
load_from_csv(files, path) ==
    IF files[path] = Absent THEN NotLoaded
    ELSE IF files[path].fmt = "csv" THEN Loaded(read_csv(files[path]))
    ELSE NotLoaded

\* load_from_json: the list, or None when the file is missing or json.load
\* raises (a file of CSV text is no JSON document).
load_from_json(files, path, filename) ==
    LET file == json_file(path, filename)
    IN  IF files[file] = Absent THEN NotLoaded
        ELSE IF files[file].fmt = "json" THEN Loaded(json_load(files[file]))
        ELSE NotLoaded

----------------------------------------------------------------------------
(* WeatherAnalyzer. *)

EmptyDict == << >>

\* DataFrame.empty
IsEmpty(df) == Len(df) = 0

\* The call ends in an exception no method of the analyzer catches.  Over a
\* column of nothing but NaN, idxmax() raises ValueError or gives NaN, and
\* then df.loc[NaN, 'city'] raises KeyError.
Raises == [exception |-> "idxmax of a column without a value"]

AllMissing(col) == dropna(col) = <<>>

get_temperature_stats(df) ==
    IF IsEmpty(df) THEN EmptyDict
    ELSE LET col == Column(df, "temperature")
         IN  IF AllMissing(col) THEN Raises ELSE
             [highest_temp      |-> SeriesMax(col),
              lowest_temp       |-> SeriesMin(col),
              average_temp      |-> RoundedMean(col),
              median_temp       |-> RoundedMedian(col),
              highest_temp_city |-> df[idxmax(col)].city,
              lowest_temp_city  |-> df[idxmin(col)].city]

HumidityStatsWithMedian(df) ==
    IF IsEmpty(df) THEN EmptyDict
    ELSE LET col == Column(df, "humidity")
         IN  IF AllMissing(col) THEN Raises ELSE
             [highest_humidity      |-> SeriesMax(col),
              lowest_humidity       |-> SeriesMin(col),
              average_humidity      |-> RoundedMean(col),
              median_humidity       |-> RoundedMedian(col),
              highest_humidity_city |-> df[idxmax(col)].city,
              lowest_humidity_city  |-> df[idxmin(col)].city]
get_humidity_stats(df) ==
    IF IsEmpty(df) THEN EmptyDict
    ELSE LET col == Column(df, "humidity")
         IN  IF AllMissing(col) THEN Raises ELSE
             [highest_humidity      |-> SeriesMax(col),
              lowest_humidity       |-> SeriesMin(col),
              average_humidity      |-> RoundedMean(col),
              highest_humidity_city |-> df[idxmax(col)].city,
              lowest_humidity_city  |-> df[idxmin(col)].city]

get_wind_stats(df) ==
    IF IsEmpty(df) THEN EmptyDict
    ELSE LET col == Column(df, "wind_speed")
         IN  IF AllMissing(col) THEN Raises ELSE
             [highest_wind      |-> SeriesMax(col),
              lowest_wind       |-> SeriesMin(col),
              average_wind      |-> RoundedMean(col),
              highest_wind_city |-> df[idxmax(col)].city,
              lowest_wind_city  |-> df[idxmin(col)].city]

\* One pass of the loop of categorize_weather: the category the if/elif
\* chain appends the row's city to.
ClassifyCloudsFirst(description) ==
    LET d == lower(description)
    IN  IF any_in(ClearWords, d) THEN "clear"
        ELSE IF any_in(CloudsWords, d) THEN "clouds"
        ELSE IF any_in(RainWords, d) THEN "rain"
        ELSE IF any_in(SnowWords, d) THEN "snow"
        ELSE "other"
Classify(description) ==
    LET d == lower(description)
    IN  IF any_in(ClearWords, d) THEN "clear"
        ELSE IF any_in(RainWords, d) THEN "rain"
        ELSE IF any_in(CloudsWords, d) THEN "clouds"
        ELSE IF any_in(SnowWords, d) THEN "snow"
        ELSE "other"

\* The loop over df.iterrows(): rows k..Len(df) appended to the lists acc.
RECURSIVE CategorizeLoopNoElse(_, _, _)
CategorizeLoopNoElse(df, k, acc) ==
    IF k > Len(df) THEN acc
    ELSE LET c == Classify(df[k].description)
         IN  CategorizeLoopNoElse(df, k + 1,
                 IF c = "other" THEN acc
                 ELSE [acc EXCEPT ![c] = Append(acc[c], df[k].city)])
RECURSIVE CategorizeLoop(_, _, _)
CategorizeLoop(df, k, acc) ==
    IF k > Len(df) THEN acc
    ELSE LET c == Classify(df[k].description)
         IN  CategorizeLoop(df, k + 1,
                 [acc EXCEPT ![c] = Append(acc[c], df[k].city)])

CategorizeNoEmptyCheck(df) ==
    CategorizeLoop(df, 1, [c \in CategoryKeys |-> <<>>])
categorize_weather(df) ==
    IF IsEmpty(df) THEN EmptyDict
    ELSE CategorizeLoop(df, 1, [c \in CategoryKeys |-> <<>>])

\* Counter(df['description']): the items in order of first appearance.
RECURSIVE CounterLoop(_, _, _)
CounterLoop(col, k, items) ==
    IF k > Len(col) THEN items
    ELSE LET seen == {j \in DOMAIN items : items[j].key = col[k]}
         IN  IF seen = {}
             THEN CounterLoop(col, k + 1,
                      Append(items, [key |-> col[k], count |-> 1]))
             ELSE LET j == CHOOSE j \in seen : TRUE
                  IN  CounterLoop(col, k + 1,
                          [items EXCEPT ![j].count = items[j].count + 1])

Counter(col) == CounterLoop(col, 1, <<>>)

\* Counter.most_common(): sorted(items, key=count, reverse=True), a stable
\* sort, so items of equal count keep their order.
RECURSIVE InsertByCount(_, _)
InsertByCount(item, sorted) ==
    IF sorted = <<>> THEN <<item>>
    ELSE IF item.count >= Head(sorted).count THEN <<item>> \o sorted
    ELSE <<Head(sorted)>> \o InsertByCount(item, Tail(sorted))

RECURSIVE MostCommonUnstable(_)
MostCommonUnstable(items) ==
    IF items = <<>> THEN <<>>
    ELSE InsertByCount(items[Len(items)],
             MostCommonUnstable(SubSeq(items, 1, Len(items) - 1)))

\* The stable descending sort: each item, from the last to the first, goes
\* in front of the items of a count not above its own.
RECURSIVE most_common(_)
most_common(items) ==
    IF items = <<>> THEN <<>>
    ELSE InsertByCount(Head(items), most_common(Tail(items)))

get_weather_distribution(df) ==
    IF IsEmpty(df) THEN EmptyDict
    ELSE most_common(Counter(Column(df, "description")))

RangeKeys == {"very_hot", "hot", "warm", "moderate", "cool", "cold"}
RangeOrder == <<"very_hot", "hot", "warm", "moderate", "cool", "cold">>

\* The if/elif chain of get_temperature_ranges for one row.
RangeOfInclusive(temp, ranges) ==
    IF temp >= ranges["very_hot"] THEN "very_hot"
    ELSE IF temp >= ranges["hot"] THEN "hot"
    ELSE IF temp >= ranges["warm"] THEN "warm"
    ELSE IF temp >= ranges["moderate"] THEN "moderate"
    ELSE IF temp >= ranges["cool"] THEN "cool"
    ELSE "cold"
RangeOf(temp, ranges) ==
    IF Greater(temp, ranges["very_hot"]) THEN "very_hot"
    ELSE IF Greater(temp, ranges["hot"]) THEN "hot"
    ELSE IF Greater(temp, ranges["warm"]) THEN "warm"
    ELSE IF Greater(temp, ranges["moderate"]) THEN "moderate"
    ELSE IF Greater(temp, ranges["cool"]) THEN "cool"
    ELSE "cold"

RECURSIVE RangesLoop(_, _, _, _)
RangesLoop(df, k, acc, ranges) ==
    IF k > Len(df) THEN acc
    ELSE LET b == RangeOf(df[k].temperature, ranges)
         IN  RangesLoop(df, k + 1,
                 [acc EXCEPT ![b] = Append(acc[b], df[k].city)], ranges)

get_temperature_ranges(df, ranges) ==
    IF IsEmpty(df) THEN EmptyDict
    ELSE RangesLoop(df, 1, [b \in RangeKeys |-> <<>>], ranges)

ComprehensiveCopiedStats(df, ranges) ==
    IF \E f \in {"temperature", "humidity", "wind_speed"} :
           ~IsEmpty(df) /\ AllMissing(Column(df, f))
    THEN Raises
    ELSE
    [temperature_stats    |-> get_temperature_stats(df),
     humidity_stats       |-> get_temperature_stats(df),
     wind_stats           |-> get_wind_stats(df),
     weather_categories   |-> categorize_weather(df),
     weather_distribution |-> get_weather_distribution(df),
     temperature_ranges   |-> get_temperature_ranges(df, ranges),
     total_cities         |-> Len(df)]
get_comprehensive_analysis(df, ranges) ==
    IF \E f \in {"temperature", "humidity", "wind_speed"} :
           ~IsEmpty(df) /\ AllMissing(Column(df, f))
    THEN Raises
    ELSE
    [temperature_stats    |-> get_temperature_stats(df),
     humidity_stats       |-> get_humidity_stats(df),
     wind_stats           |-> get_wind_stats(df),
     weather_categories   |-> categorize_weather(df),
     weather_distribution |-> get_weather_distribution(df),
     temperature_ranges   |-> get_temperature_ranges(df, ranges),
     total_cities         |-> Len(df)]

----------------------------------------------------------------------------
(* WeatherAPI. *)

Whitespace == {" ", "\t", "\n"}

\* str.strip()
RECURSIVE lstrip(_)
lstrip(s) ==
    IF s # <<>> /\ Head(s) \in Whitespace THEN lstrip(Tail(s)) ELSE s

RECURSIVE rstrip(_)
rstrip(s) ==
    IF s # <<>> /\ s[Len(s)] \in Whitespace
    THEN rstrip(SubSeq(s, 1, Len(s) - 1))
    ELSE s

strip(s) == rstrip(lstrip(s))

\* A response body is well formed when _parse_weather_data finds every key
\* it reads; otherwise the lookup raises.
WellFormed(body) ==
    /\ {"main", "weather", "wind", "sys"} \subseteq DOMAIN body
    /\ {"temp", "humidity"} \subseteq DOMAIN body["main"]
    /\ Len(body["weather"]) >= 1
    /\ "description" \in DOMAIN body["weather"][1]
    /\ "speed" \in DOMAIN body["wind"]
    /\ "country" \in DOMAIN body["sys"]

_parse_weather_data(body, city) ==
    [city        |-> city,
     temperature |-> round1(body["main"]["temp"], 1),
     humidity    |-> body["main"]["humidity"],
     description |-> title(body["weather"][1]["description"]),
     wind_speed  |-> round1(body["wind"]["speed"], 1),
     country     |-> body["sys"]["country"],
     timestamp   |-> Timestamp]

\* fetch_weather_data, given the response requests.get produced for the
\* city: the record, or None when the request raised, the status is not 200
\* or the body cannot be parsed (the exception is caught).
fetch_weather_data(response, city) ==
    IF response.raised THEN None
    ELSE IF response.status_code = 200
         THEN IF response.is_json /\ WellFormed(response.body)
              THEN _parse_weather_data(response.body, city)
              ELSE None
    ELSE IF response.status_code = 404 THEN None
    ELSE None

\* if data: weather_data.append(data)
AppendIfData(collected, d) ==
    IF d # None THEN Append(collected, d) ELSE collected

\* The position after the request for city i: the loop goes on to the next
\* city whatever the request returned.
NextIdxStopOnFailure(i, d, n) == IF d = None THEN n + 1 ELSE i + 1
NextIdx(i, d, n) == i + 1

\* Bodies of the remote service.
Body(temp, humidity, description, speed, country) ==
    [main    |-> [temp |-> temp, humidity |-> humidity],
     weather |-> << [description |-> description] >>,
     wind    |-> [speed |-> speed],
     sys     |-> [country |-> country]]

NA == <<"N","A">>

\* 10.06 degrees under a clear sky in GB; 35 degrees and rain in Namibia,
\* whose country code is NA.
Bodies ==
    { Body(1006, 5000, D_clear_sky, 314, GB),
      Body(3500, 6000, lower(D_CloudyWithRain), 300, NA) }

\* A body without the key 'main'.
MalformedBody ==
    [weather |-> << [description |-> D_clear_sky] >>,
     wind    |-> [speed |-> 300],
     sys     |-> [country |-> GB]]

Response(raised, status_code, is_json, body) ==
    [raised |-> raised, status_code |-> status_code, is_json |-> is_json,
     body |-> body]

\* What requests.get can produce: a network error, a 200 with a well-formed
\* body, a malformed body or no JSON at all, a 404, another status.
Responses ==
    {Response(TRUE, 0, FALSE, << >>)}
        \cup {Response(FALSE, 200, TRUE, b) : b \in Bodies \cup {MalformedBody}}
        \cup {Response(FALSE, 200, FALSE, << >>)}
        \cup {Response(FALSE, code, TRUE, << >>) : code \in {404, 500}}

Resolved(response) ==
    /\ ~response.raised
    /\ response.status_code = 200
    /\ response.is_json
    /\ response.body \in Bodies

----------------------------------------------------------------------------
(* ReportGenerator. *)

\* dict.get(key, default)
Get(dict, key, default) == IF key \in DOMAIN dict THEN dict[key] ELSE default

Line(kind) == [kind |-> kind]
Bullets(cities_) == [k \in DOMAIN cities_ |-> [kind |-> "bullet", city |-> cities_[k]]]

\* One block of the category breakdown: nothing for an empty list.
CategoryBlock(weather_cats, key, label) ==
    LET listed == Get(weather_cats, key, << >>)
    IN  IF listed = << >> THEN << >>
        ELSE << [kind |-> "count", label |-> label, count |-> Len(listed)] >>
                 \o Bullets(listed) \o << Line("blank") >>

RangeLabels ==
    [very_hot |-> "Very Hot (>35C)", hot |-> "Hot (30-35C)",
     warm |-> "Warm (25-30C)", moderate |-> "Moderate (15-25C)",
     cool |-> "Cool (10-15C)", cold |-> "Cold (<10C)"]

RECURSIVE RangeBlocks(_, _)
RangeBlocks(temp_ranges, keys) ==
    IF keys = << >> THEN << >>
    ELSE LET listed == temp_ranges[Head(keys)]
         IN  (IF listed = << >> THEN << >>
              ELSE << [kind |-> "count", label |-> RangeLabels[Head(keys)],
                       count |-> Len(listed)] >>
                       \o Bullets(listed) \o << Line("blank") >>)
                 \o RangeBlocks(temp_ranges, Tail(keys))

\* generate_report: the lines of the report, each with its section.  A
\* raw_data of None is the empty list: `if raw_data` is false of both.
generate_report(analysis, raw_data) ==
    LET temp_stats     == Get(analysis, "temperature_stats", EmptyDict)
        weather_cats   == Get(analysis, "weather_categories", EmptyDict)
        temp_ranges    == Get(analysis, "temperature_ranges", EmptyDict)
        humidity_stats == Get(analysis, "humidity_stats", EmptyDict)
        wind_stats     == Get(analysis, "wind_stats", EmptyDict)
        In(section, lines) ==
            [k \in DOMAIN lines |->
                [section |-> section, line |-> lines[k]]]
    IN  In("HEADER",
            << Line("rule"), Line("title"), Line("rule"),
               Line("generated_on"),
               [kind |-> "total",
                value |-> Get(analysis, "total_cities", 0)],
               Line("blank") >>)
        \o (IF DOMAIN temp_stats = {} THEN << >>
            ELSE In("TEMPERATURE ANALYSIS",
                     << Line("heading"), Line("dashes"),
                        [kind |-> "highest",
                         value |-> temp_stats["highest_temp"],
                         city |-> temp_stats["highest_temp_city"]],
                        [kind |-> "lowest",
                         value |-> temp_stats["lowest_temp"],
                         city |-> temp_stats["lowest_temp_city"]],
                        [kind |-> "average",
                         value |-> temp_stats["average_temp"]],
                        [kind |-> "median",
                         value |-> temp_stats["median_temp"]],
                        Line("blank") >>))
        \o (IF DOMAIN weather_cats = {} THEN << >>
            ELSE In("WEATHER CONDITIONS",
                     << Line("heading"), Line("dashes") >>
                         \o CategoryBlock(weather_cats, "clear",
                                          "Clear Weather Cities")
                         \o CategoryBlock(weather_cats, "rain",
                                          "Rain in Cities")
                         \o CategoryBlock(weather_cats, "clouds",
                                          "Cloudy Cities")))
        \o (IF DOMAIN temp_ranges = {} THEN << >>
            ELSE In("TEMPERATURE RANGES",
                     << Line("heading"), Line("dashes") >>
                         \o RangeBlocks(temp_ranges, RangeOrder)))
        \o (IF DOMAIN humidity_stats = {} /\ DOMAIN wind_stats = {}
            THEN << >>
            ELSE In("ADDITIONAL METRICS",
                     << Line("heading"), Line("dashes") >>
                     \o (IF DOMAIN humidity_stats = {} THEN << >>
                         ELSE << Line("humidity"),
                                 [kind |-> "highest",
                                  value |-> humidity_stats["highest_humidity"],
                                  city |-> humidity_stats["highest_humidity_city"]],
                                 [kind |-> "lowest",
                                  value |-> humidity_stats["lowest_humidity"],
                                  city |-> humidity_stats["lowest_humidity_city"]],
                                 [kind |-> "average",
                                  value |-> humidity_stats["average_humidity"]],
                                 Line("blank") >>)
                     \o (IF DOMAIN wind_stats = {} THEN << >>
                         ELSE << Line("wind"),
                                 [kind |-> "highest",
                                  value |-> wind_stats["highest_wind"],
                                  city |-> wind_stats["highest_wind_city"]],
                                 [kind |-> "lowest",
                                  value |-> wind_stats["lowest_wind"],
                                  city |-> wind_stats["lowest_wind_city"]],
                                 [kind |-> "average",
                                  value |-> wind_stats["average_wind"]],
                                 Line("blank") >>)))
        \o (IF raw_data = << >> THEN << >>
            ELSE In("DETAILED WEATHER DATA",
                     << Line("heading"), Line("dashes"),
                        [kind |-> "table",
                         rows |-> [k \in DOMAIN raw_data |->
                                      << raw_data[k]["city"],
                                         raw_data[k]["temperature"],
                                         raw_data[k]["humidity"],
                                         raw_data[k]["description"],
                                         raw_data[k]["wind_speed"] >>]],
                        Line("blank") >>))
        \o In("FOOTER", << Line("rule"), Line("end"), Line("rule") >>)

\* save_report: [ret, fs].  An exception of open or write (io_ok false) is
\* caught and False returned.
save_report(files, report_file, report_content, io_ok) ==
    IF ~io_ok THEN [ret |-> FALSE, fs |-> files]
    ELSE [ret |-> TRUE,
          fs  |-> [files EXCEPT ![report_file] =
                      [fmt |-> "text", lines |-> report_content]]]

\* read_cities_file: the stripped non-blank lines, or [] when the file is
\* missing.
read_cities_file(files, cities_file) ==
    IF files[cities_file] = Absent THEN << >>
    ELSE LET stripped == [k \in DOMAIN files[cities_file].lines |->
                             strip(files[cities_file].lines[k])]
         IN  SelectSeq(stripped, LAMBDA line : line # << >>)

----------------------------------------------------------------------------
(* The record sets the specifications start from. *)

Rec(c, t, h, w, d) ==
    [city |-> c, temperature |-> t, humidity |-> h, description |-> d,
     wind_speed |-> w, country |-> GB, timestamp |-> Timestamp]

\* (temperature, humidity, wind_speed): ties in one field are not ties in
\* the others; 10.06 has two decimals, -0.5 is below zero.
StatsProfiles ==
    { <<1006, 5000, 300>>, <<1006, 6000, 310>>, <<1000, 5000, 310>>,
      <<3010, 6000, 300>>, <<-50, 7000, 0>> }

StatsPool ==
    {Rec(c, p[1], p[2], p[3], D_ClearSky) : c \in Cities, p \in StatsProfiles}

\* City A under every description, city B under three of them: a city may
\* occur in several records.
CatPool ==
    {Rec(CityA, 2000, 5000, 300, d) : d \in Descriptions}
        \cup {Rec(CityB, 2000, 5000, 300, d) :
                  d \in {D_ClearSky, D_CloudyWithRain, D_Mist}}

\* Temperatures on, just above and between the default thresholds.
RangeTemps == {3510, 3500, 3000, 2750, 2000, 1010, 1000, -50}

RangePool == {Rec(c, t, 5000, 300, D_ClearSky) : c \in Cities, t \in RangeTemps}

MixedPool ==
    { Rec(CityA, 1006, 5000, 300, D_ClearSky),
      Rec(CityB, 3500, 6000, 300, D_CloudyWithRain),
      Rec(CityA, 3510, 6000, 310, D_Mist),
      Rec(CityC, 1006, 5000,   0, D_ClearSky) }

\* (temperature, humidity, wind_speed) of records that lack one numeric
\* value, or all of them, and of records that lack none.
MissingProfiles ==
    { <<2000, 5000, 300>>, <<3600, 6000, 400>>, <<nan, 5000, 300>>,
      <<2000, nan, 300>>, <<2000, 5000, nan>>, <<nan, nan, nan>> }

MissingPool ==
    {Rec(c, p[1], p[2], p[3], D_ClearSky) :
         c \in {CityA, CityB}, p \in MissingProfiles}

\* config.TEMP_RANGES, in hundredths.
DefaultRanges ==
    [very_hot |-> 3500, hot |-> 3000, warm |-> 2500, moderate |-> 1500,
     cool |-> 1000]

\* Other threshold configurations: all shifted, and one whose thresholds do
\* not descend.
RangeConfigs ==
    { DefaultRanges,
      [very_hot |-> 3000, hot |-> 2750, warm |-> 2000, moderate |-> 1010,
       cool |-> 0],
      [very_hot |-> 2000, hot |-> 3000, warm |-> 1000, moderate |-> 1000,
       cool |-> 3500] }

NoResult == [op |-> "none", value |-> EmptyDict]

----------------------------------------------------------------------------
(* States at rest and inputs of the data handler and of the commands. *)

\* The records the data handler is given: what the fetch client makes of
\* the service's bodies.
StorePool == {_parse_weather_data(b, CityA) : b \in Bodies}

CitiesPath == <<"c",".","t","x","t">>
ReportPath == <<"r",".","t","x","t">>

\* The --output option (and analyze's --data-file).
Output == WCsv

Paths == DataFiles \cup {CitiesPath, ReportPath}

NoFiles == [path \in Paths |-> Absent]

\* Lines of a cities file: a name, a name with blanks around it, a blank
\* line.
CityLines == { <<"A">>, <<" ","B"," ">>, <<" ">> }

CitiesFiles ==
    {Absent} \cup {[fmt |-> "text", lines |-> lines] :
                      lines \in SeqsUpTo(CityLines, MaxCityLines)}

\* A data file left by an earlier run.
StaleData == to_csv(<< Rec(CityC, 2000, 5000, 300, D_Mist) >>)

\* config.API_KEY: os.getenv gives None when the key is not set; None and
\* the empty string alike fail the test `if not API_KEY`.
NoKey == << >>
Key == <<"k">>

AnalyzerIdle ==
    /\ data = << >>
    /\ TEMP_RANGES = DefaultRanges
    /\ result = NoResult

HandlerIdle ==
    /\ fs = NoFiles
    /\ data_file = Output
    /\ last_save = None
    /\ last_load = None

CliIdle ==
    /\ pc = "idle"
    /\ command = "none"
    /\ format = "csv"
    /\ show_table = FALSE
    /\ API_KEY = NoKey
    /\ cities = << >>
    /\ idx = 1
    /\ weather_data = << >>
    /\ requests = << >>
    /\ exit_code = 0
    /\ echoed = << >>
    /\ events = {}

vars == <<data, TEMP_RANGES, result, fs, data_file, last_save, last_load,
          pc, command, format, show_table, API_KEY, cities, idx,
          weather_data, requests, exit_code, echoed, events>>

----------------------------------------------------------------------------
(* The analyzer's operations as actions: a call leaves the record set as it *)
(* is and returns a value.                                                  *)

Returns(op, value) ==
    /\ result' = [op |-> op, value |-> value]
    /\ UNCHANGED <<data, TEMP_RANGES, handler_vars, cli_vars>>

GetTemperatureStats ==
    Returns("get_temperature_stats", get_temperature_stats(data))

GetHumidityStats ==
    Returns("get_humidity_stats", get_humidity_stats(data))

GetWindStats ==
    Returns("get_wind_stats", get_wind_stats(data))

CategorizeWeather ==
    Returns("categorize_weather", categorize_weather(data))

GetWeatherDistribution ==
    Returns("get_weather_distribution", get_weather_distribution(data))

GetTemperatureRanges ==
    Returns("get_temperature_ranges",
            get_temperature_ranges(data, TEMP_RANGES))

GetComprehensiveAnalysis ==
    Returns("get_comprehensive_analysis",
            get_comprehensive_analysis(data, TEMP_RANGES))

\* The whole analyzer over a record set of mixed records, the empty one
\* included.
Init ==
    /\ data \in SeqsUpTo(MixedPool, MaxLen)
    /\ TEMP_RANGES = DefaultRanges
    /\ result = NoResult
    /\ HandlerIdle
    /\ CliIdle

Next ==
    \/ GetTemperatureStats
    \/ GetHumidityStats
    \/ GetWindStats
    \/ CategorizeWeather
    \/ GetWeatherDistribution
    \/ GetTemperatureRanges
    \/ GetComprehensiveAnalysis

Spec == Init /\ [][Next]_vars

\* The statistics over record sets that vary in the numeric fields.
InitStats ==
    /\ data \in SeqsUpTo(StatsPool, MaxStatsLen)
    /\ TEMP_RANGES = DefaultRanges
    /\ result = NoResult
    /\ HandlerIdle
    /\ CliIdle

NextStats == GetTemperatureStats \/ GetHumidityStats \/ GetWindStats

SpecStats == InitStats /\ [][NextStats]_vars

\* Categorization and distribution over record sets that vary in the
\* description.
InitCat ==
    /\ data \in SeqsUpTo(CatPool, MaxCatLen)
    /\ TEMP_RANGES = DefaultRanges
    /\ result = NoResult
    /\ HandlerIdle
    /\ CliIdle

NextCat == CategorizeWeather \/ GetWeatherDistribution

SpecCat == InitCat /\ [][NextCat]_vars

\* The range buckets over record sets that vary in the temperature, under
\* each threshold configuration.
InitRanges ==
    /\ data \in SeqsUpTo(RangePool, MaxRangeLen)
    /\ TEMP_RANGES \in RangeConfigs
    /\ result = NoResult
    /\ HandlerIdle
    /\ CliIdle

NextRanges == GetTemperatureRanges

SpecRanges == InitRanges /\ [][NextRanges]_vars

\* The statistics and the range buckets over record sets in which records
\* may lack a numeric value.
InitMissing ==
    /\ data \in SeqsUpTo(MissingPool, MaxMissingLen)
    /\ TEMP_RANGES = DefaultRanges
    /\ result = NoResult
    /\ HandlerIdle
    /\ CliIdle

NextMissing ==
    GetTemperatureStats \/ GetHumidityStats \/ GetWindStats
        \/ GetTemperatureRanges

SpecMissing == InitMissing /\ [][NextMissing]_vars

\* The report of the analysis of a record set, as analyze builds it, with
\* or without the table of the records.
GenerateReport ==
    \E table \in BOOLEAN :
        LET analysis == get_comprehensive_analysis(data, TEMP_RANGES)
            raw_data == IF table THEN data ELSE << >>
        IN  Returns("generate_report", generate_report(analysis, raw_data))

\* Reports over record sets that vary in the description.
InitReport ==
    /\ data \in SeqsUpTo(CatPool, MaxReportLen)
    /\ TEMP_RANGES = DefaultRanges
    /\ result = NoResult
    /\ HandlerIdle
    /\ CliIdle

NextReport == GenerateReport

SpecReport == InitReport /\ [][NextReport]_vars

----------------------------------------------------------------------------
(* The data handler's operations as actions.  A save is given any record   *)
(* set and may meet a file it cannot write.                                 *)

\* The filename argument of save_to_json and load_from_json.
Filenames == {NoFilename, WCsv}

SaveCall(op, records, filename, io_ok, saved) ==
    /\ fs' = saved.fs
    /\ last_save' = [op |-> op, records |-> records, filename |-> filename,
                     io_ok |-> io_ok, ret |-> saved.ret]
    /\ last_load' = None
    /\ UNCHANGED <<data_file, analyzer_vars, cli_vars>>

LoadCall(op, filename, loaded) ==
    /\ last_load' = [op |-> op, filename |-> filename, ret |-> loaded,
                     after |-> last_save]
    /\ last_save' = None
    /\ UNCHANGED <<fs, data_file, analyzer_vars, cli_vars>>

SaveToCsv ==
    \E records \in SeqsUpTo(StorePool, MaxStoreLen), io_ok \in BOOLEAN :
        SaveCall("save_to_csv", records, NoFilename, io_ok,
                 save_to_csv(fs, data_file, records, io_ok))

SaveToJson ==
    \E records \in SeqsUpTo(StorePool, MaxStoreLen), io_ok \in BOOLEAN,
       filename \in Filenames :
        SaveCall("save_to_json", records, filename, io_ok,
                 save_to_json(fs, data_file, records, filename, io_ok))

LoadFromCsv ==
    LoadCall("load_from_csv", NoFilename, load_from_csv(fs, data_file))

LoadFromJson ==
    \E filename \in Filenames :
        LoadCall("load_from_json", filename,
                 load_from_json(fs, data_file, filename))

InitStore ==
    /\ AnalyzerIdle
    /\ fs = NoFiles
    /\ data_file \in DataFiles
    /\ last_save = None
    /\ last_load = None
    /\ CliIdle

NextStore == SaveToCsv \/ SaveToJson \/ LoadFromCsv \/ LoadFromJson

SpecStore == InitStore /\ [][NextStore]_vars

----------------------------------------------------------------------------
(* The commands of weather_cli, step by step.                               *)

\* sys.exit(code), or the return of the command: the process ends.
Exit(code, messages, occurred) ==
    /\ pc' = "exited"
    /\ exit_code' = code
    /\ echoed' = echoed \o messages
    /\ events' = events \cup occurred

\* The command starts: run announces the workflow and invokes fetch.
RunCommand ==
    /\ pc = "start"
    /\ pc' = IF command = "analyze" THEN "analyze" ELSE "fetch"
    /\ echoed' = IF command = "run" THEN <<"workflow_start">> ELSE echoed
    /\ UNCHANGED <<analyzer_vars, handler_vars, command, format, show_table,
                   API_KEY, cities, idx, weather_data, requests, exit_code,
                   events>>

\* fetch, up to the call of fetch_multiple_cities: the API key and the
\* cities file are checked.
FetchStart ==
    /\ pc = "fetch"
    /\ IF API_KEY = NoKey
       THEN /\ Exit(1, <<"error_no_api_key", "hint_get_api_key">>,
                    {"api_key_missing"})
            /\ UNCHANGED <<data_file, cities, idx, weather_data>>
       ELSE LET read == read_cities_file(fs, CitiesPath)
            IN  /\ data_file' = Output
                /\ IF read = << >>
                   THEN /\ Exit(1, <<"error_no_cities">>, {"city_list_empty"})
                        /\ UNCHANGED <<cities, idx, weather_data>>
                   ELSE /\ cities' = read
                        /\ idx' = 1
                        /\ weather_data' = << >>
                        /\ pc' = "fetching"
                        /\ echoed' = echoed \o <<"starting_collection",
                                                 "print_fetching">>
                        /\ UNCHANGED <<exit_code, events>>
    /\ UNCHANGED <<analyzer_vars, fs, last_save, last_load, command, format,
                   show_table, API_KEY, requests>>

\* One pass of the loop of fetch_multiple_cities: the request for
\* cities[idx] gets some response.
FetchCity ==
    /\ pc = "fetching"
    /\ idx <= Len(cities)
    /\ \E response \in Responses :
        LET city == strip(cities[idx])
            d    == fetch_weather_data(response, city)
        IN  /\ requests' = Append(requests,
                               [city |-> city, response |-> response])
            /\ weather_data' = AppendIfData(weather_data, d)
            /\ idx' = NextIdx(idx, d, Len(cities))
    /\ UNCHANGED <<analyzer_vars, handler_vars, pc, command, format,
                   show_table, API_KEY, cities, exit_code, echoed, events>>

\* The loop is over: fetch_multiple_cities returns weather_data.
FetchReturn ==
    /\ pc = "fetching"
    /\ idx > Len(cities)
    /\ pc' = "fetched"
    /\ echoed' = Append(echoed, "print_successfully_fetched")
    /\ UNCHANGED <<analyzer_vars, handler_vars, command, format, show_table,
                   API_KEY, cities, idx, weather_data, requests, exit_code,
                   events>>

\* fetch, after fetch_multiple_cities: the records are saved in the format
\* asked for, to a file that may not be writable.
FetchSave ==
    /\ pc = "fetched"
    /\ command \in {"fetch", "run"}
    /\ IF weather_data = << >>
       THEN /\ Exit(1, <<"error_no_weather_data">>, {"no_records_fetched"})
            /\ UNCHANGED <<fs, last_save>>
       ELSE \E io_ok \in BOOLEAN :
            LET saved == IF format = "json"
                         THEN save_to_json(fs, data_file, weather_data,
                                           Output, io_ok)
                         ELSE save_to_csv(fs, data_file, weather_data, io_ok)
            IN  /\ fs' = saved.fs
                /\ last_save' =
                       [op |-> IF format = "json" THEN "save_to_json"
                               ELSE "save_to_csv",
                        records |-> weather_data,
                        filename |-> IF format = "json" THEN Output
                                     ELSE NoFilename,
                        io_ok |-> io_ok, ret |-> saved.ret]
                /\ IF saved.ret /\ command = "fetch"
                   THEN Exit(0, <<"print_data_saved", "ok_saved">>, {})
                   ELSE IF saved.ret
                   THEN /\ pc' = "analyze"
                        /\ echoed' = echoed \o <<"print_data_saved",
                                                 "ok_saved">>
                        /\ UNCHANGED <<exit_code, events>>
                   ELSE Exit(1, <<"print_error_saving_data",
                                  "error_save_failed">>,
                             {"data_save_io_failure"})
    /\ UNCHANGED <<analyzer_vars, data_file, last_load, command, format,
                   show_table, API_KEY, cities, idx, weather_data, requests>>

\* analyze: the data file is loaded as CSV, analyzed, and the report is
\* generated, saved to a file that may not be writable, and printed.  The
\* value save_report returns is not looked at.
Analyze ==
    /\ pc = "analyze"
    /\ data_file' = Output
    /\ LET loaded == load_from_csv(fs, Output)
           df     == loaded.rows
       IN  /\ last_load' = [op |-> "load_from_csv", filename |-> NoFilename,
                            ret |-> loaded, after |-> last_save]
           /\ last_save' = None
           /\ IF loaded.is_none \/ IsEmpty(df)
              THEN /\ Exit(1, <<"print_load_failed", "error_no_data_found">>,
                           {})
                   /\ UNCHANGED <<analyzer_vars, fs>>
              ELSE \E io_ok \in BOOLEAN :
                   LET analysis == get_comprehensive_analysis(df, TEMP_RANGES)
                       raw_data == IF show_table THEN df ELSE << >>
                       report   == generate_report(analysis, raw_data)
                       saved    == save_report(fs, ReportPath, report, io_ok)
                   IN  /\ data' = df
                       /\ result' = [op |-> "get_comprehensive_analysis",
                                     value |-> analysis]
                       /\ fs' = saved.fs
                       /\ Exit(0,
                               <<"print_data_loaded", "analyzing",
                                 IF saved.ret THEN "print_report_saved"
                                 ELSE "print_error_saving_report",
                                 "print_report", "ok_analysis_complete">>
                                 \o (IF command = "run"
                                     THEN <<"ok_workflow_finished">>
                                     ELSE << >>),
                               IF io_ok THEN {}
                               ELSE {"report_save_io_failure"})
                       /\ UNCHANGED TEMP_RANGES
    /\ UNCHANGED <<command, format, show_table, API_KEY, cities, idx,
                   weather_data, requests>>

\* A command is run with some options, on a disk holding some cities file
\* and possibly a data file of an earlier run, with or without an API key.
InitCli ==
    /\ AnalyzerIdle
    /\ \E cities_file \in CitiesFiles, old \in {Absent, StaleData} :
           fs = [NoFiles EXCEPT ![CitiesPath] = cities_file, ![Output] = old]
    /\ data_file = Output
    /\ last_save = None
    /\ last_load = None
    /\ pc = "start"
    /\ command \in {"fetch", "analyze", "run"}
    /\ format \in IF command = "analyze" THEN {"csv"} ELSE {"csv", "json"}
    /\ show_table \in IF command = "fetch" THEN {FALSE} ELSE BOOLEAN
    /\ API_KEY \in {NoKey, Key}
    /\ cities = << >>
    /\ idx = 1
    /\ weather_data = << >>
    /\ requests = << >>
    /\ exit_code = 0
    /\ echoed = << >>
    /\ events = {}

NextCli ==
    RunCommand \/ FetchStart \/ FetchCity \/ FetchReturn \/ FetchSave
        \/ Analyze

SpecCli == InitCli /\ [][NextCli]_vars

\* fetch_multiple_cities called with any list of city names.
InitApi ==
    /\ AnalyzerIdle
    /\ HandlerIdle
    /\ pc = "fetching"
    /\ command = "none"
    /\ format = "csv"
    /\ show_table = FALSE
    /\ API_KEY = Key
    /\ cities \in SeqsUpTo({ <<"A">>, <<" ","B"," ">> }, MaxApiCities)
    /\ idx = 1
    /\ weather_data = << >>
    /\ requests = << >>
    /\ exit_code = 0
    /\ echoed = << >>
    /\ events = {}

NextApi == FetchCity \/ FetchReturn

SpecApi == InitApi /\ [][NextApi]_vars

----------------------------------------------------------------------------
(* Helpers of the properties. *)

\* The number of positions of sequence s that hold x.
Occurrences(s, x) == Cardinality({k \in DOMAIN s : s[k] = x})

\* The position of the first x in s.
FirstIndex(s, x) == CHOOSE k \in DOMAIN s :
                        s[k] = x /\ \A j \in DOMAIN s : j < k => s[j] # x

\* The cities of the rows of df that satisfy Keep, in row order.
CitiesWhere(df, Keep(_)) == Column(SelectSeq(df, Keep), "city")

\* The lists of a dict of lists, one after the other in the order of keys.
RECURSIVE ConcatLists(_, _)
ConcatLists(dict, keys) ==
    IF keys = <<>> THEN <<>>
    ELSE dict[Head(keys)] \o ConcatLists(dict, Tail(keys))

Called(op) == result.op = op

----------------------------------------------------------------------------
(* C1 *)

TempCol == Column(data, "temperature")

\* C1 as claimed: for every non-empty record set the rounded average and the
\* rounded median returned by get_temperature_stats lie between the
\* unrounded lowest and highest temperature.
C1_AsClaimed ==
    (Called("get_temperature_stats") /\ data # <<>>) =>
        LET r == result.value
        IN  /\ r.highest_temp >= r.average_temp
            /\ r.average_temp >= r.lowest_temp
            /\ r.highest_temp >= r.median_temp
            /\ r.median_temp >= r.lowest_temp

\* C1, amended: for every non-empty record set whose temperatures have at
\* most one decimal, highest_temp >= average_temp >= lowest_temp and
\* highest_temp >= median_temp >= lowest_temp, highest_temp and lowest_temp
\* being the maximum and the minimum of the temperature field.
C1_RoundedWithinExtremes ==
    ( /\ Called("get_temperature_stats")
      /\ data # <<>>
      /\ \A k \in DOMAIN data : data[k].temperature % 10 = 0 ) =>
        LET r == result.value
        IN  /\ \A k \in DOMAIN data : data[k].temperature <= r.highest_temp
            /\ \A k \in DOMAIN data : data[k].temperature >= r.lowest_temp
            /\ \E k \in DOMAIN data : data[k].temperature = r.highest_temp
            /\ \E k \in DOMAIN data : data[k].temperature = r.lowest_temp
            /\ r.highest_temp >= r.average_temp
            /\ r.average_temp >= r.lowest_temp
            /\ r.highest_temp >= r.median_temp
            /\ r.median_temp >= r.lowest_temp

\* Temperature statistics of two one-decimal temperatures that differ, whose
\* mean, 20.05, is rounded.
C1_Witness ==
    /\ Called("get_temperature_stats")
    /\ Len(data) = 2
    /\ data[1].temperature = 1000
    /\ data[2].temperature = 3010
    /\ result.value.average_temp = 2000
    /\ result.value.median_temp = 2000

----------------------------------------------------------------------------
(* C2 *)

EmptyResultOps ==
    {"get_temperature_stats", "get_humidity_stats", "get_wind_stats",
     "categorize_weather", "get_weather_distribution",
     "get_temperature_ranges"}

\* C2 as claimed: on an empty record set the six operations return an empty
\* mapping and get_comprehensive_analysis reports 0 under the key
\* total_records.
C2_AsClaimed ==
    data = <<>> =>
        /\ result.op \in EmptyResultOps => DOMAIN result.value = {}
        /\ Called("get_comprehensive_analysis") =>
               /\ "total_records" \in DOMAIN result.value
               /\ result.value["total_records"] = 0

\* C2, amended: on an empty record set the six operations return an empty
\* mapping (no keys), and get_comprehensive_analysis reports a record count
\* of 0 under the key total_cities; its result has no key total_records.
C2_EmptyInput ==
    data = <<>> =>
        /\ result.op \in EmptyResultOps => DOMAIN result.value = {}
        /\ Called("get_comprehensive_analysis") =>
               /\ "total_cities" \in DOMAIN result.value
               /\ result.value["total_cities"] = 0
               /\ "total_records" \notin DOMAIN result.value
               /\ \A key \in DOMAIN result.value \ {"total_cities"} :
                      DOMAIN result.value[key] = {}

C2_Witness ==
    /\ data = <<>>
    /\ Called("get_comprehensive_analysis")
    /\ result.value["weather_categories"] = EmptyDict

----------------------------------------------------------------------------
(* C3 *)

\* The reported extremes of one field and their cities: the highest value is
\* the maximum and its city is the city of the first row that holds it, and
\* likewise for the lowest.
FirstExtremes(field, highest, lowest, highest_city, lowest_city) ==
    LET col == Column(data, field)
    IN  /\ \A k \in DOMAIN col : col[k] <= highest /\ col[k] >= lowest
        /\ \E k \in DOMAIN col :
               /\ col[k] = highest
               /\ \A j \in DOMAIN col : j < k => col[j] # highest
               /\ data[k].city = highest_city
        /\ \E k \in DOMAIN col :
               /\ col[k] = lowest
               /\ \A j \in DOMAIN col : j < k => col[j] # lowest
               /\ data[k].city = lowest_city

\* C3: in the temperature, humidity and wind statistics the reported
\* highest-city (lowest-city) is the city of the first record, in input
\* order, whose field equals the reported highest (lowest) value.
C3_FirstOccurrence ==
    data # <<>> =>
        LET r == result.value
        IN  /\ Called("get_temperature_stats") =>
                FirstExtremes("temperature", r.highest_temp, r.lowest_temp,
                              r.highest_temp_city, r.lowest_temp_city)
            /\ Called("get_humidity_stats") =>
                FirstExtremes("humidity", r.highest_humidity,
                              r.lowest_humidity, r.highest_humidity_city,
                              r.lowest_humidity_city)
            /\ Called("get_wind_stats") =>
                FirstExtremes("wind_speed", r.highest_wind, r.lowest_wind,
                              r.highest_wind_city, r.lowest_wind_city)

\* Two records of different cities share the highest temperature, and the
\* first one's city is reported.
C3_Witness ==
    /\ Called("get_temperature_stats")
    /\ Len(data) >= 2
    /\ data[1].city # data[2].city
    /\ data[1].temperature = data[2].temperature
    /\ data[1].temperature = result.value.highest_temp
    /\ result.value.highest_temp_city = data[1].city

----------------------------------------------------------------------------
(* C4 *)

AllCategorized == ConcatLists(result.value, CategoryOrder)

CityCol == Column(data, "city")

KeepsRowOrder ==
    \A c \in CategoryKeys :
        result.value[c] =
            CitiesWhere(data, LAMBDA row : Classify(row.description) = c)

\* C4 as claimed: for every non-empty record set the five lists of
\* categorize_weather together hold each input city exactly once, without
\* duplicates, and each list keeps the record order.
C4_AsClaimed ==
    (Called("categorize_weather") /\ data # <<>>) =>
        /\ \A k \in DOMAIN data : Occurrences(AllCategorized, data[k].city) = 1
        /\ {AllCategorized[k] : k \in DOMAIN AllCategorized}
               = {data[k].city : k \in DOMAIN data}
        /\ KeepsRowOrder

\* C4, amended: for every non-empty record set categorize_weather places
\* every input record's city in exactly one of the five lists: the lists
\* together hold each city as many times as the input has records of it (so
\* exactly once when the input's cities are distinct), their set of cities is
\* the input's, and each list keeps the record order.
C4_EveryRecordOnce ==
    (Called("categorize_weather") /\ data # <<>>) =>
        /\ DOMAIN result.value = CategoryKeys
        /\ Len(AllCategorized) = Len(data)
        /\ \A k \in DOMAIN data :
               Occurrences(AllCategorized, data[k].city)
                   = Occurrences(CityCol, data[k].city)
        /\ {AllCategorized[k] : k \in DOMAIN AllCategorized}
               = {data[k].city : k \in DOMAIN data}
        /\ KeepsRowOrder

\* Three records of two cities in three categories, the catch-all included.
C4_Witness ==
    /\ Called("categorize_weather")
    /\ Len(data) = 3
    /\ data[1].city = CityB /\ data[2].city = CityA /\ data[3].city = CityB
    /\ result.value["other"] = <<CityB>>
    /\ result.value["rain"] = <<CityA>>
    /\ result.value["clear"] = <<CityB>>

----------------------------------------------------------------------------
(* C5 *)

CategoryWords(c) ==
    CASE c = "clear"  -> ClearWords
      [] c = "rain"   -> RainWords
      [] c = "clouds" -> CloudsWords
      [] c = "snow"   -> SnowWords
      [] c = "other"  -> <<>>

\* Description d, whatever its case, contains a keyword of category c.
HasKeyword(d, c) ==
    \E k \in DOMAIN CategoryWords(c) : Contains(lower(d), CategoryWords(c)[k])

\* The category the claim gives description d: the one whose keyword d
\* contains while it contains none of an earlier category, and other when
\* it contains no keyword at all.
ClaimedCategory(d, c) ==
    IF c = "other"
    THEN \A e \in CategoryKeys : ~HasKeyword(d, e)
    ELSE /\ HasKeyword(d, c)
         /\ \A j \in 1..(FirstIndex(CategoryOrder, c) - 1) :
                ~HasKeyword(d, CategoryOrder[j])

\* C5: categorize_weather puts a record in category C iff its description
\* contains, case-insensitively, a keyword of C and no keyword of a category
\* earlier in the order clear, rain, clouds, snow; and in other iff it
\* contains no keyword.  "Cloudy With Rain" is rain.
C5_FirstMatchPriority ==
    (Called("categorize_weather") /\ data # <<>>) =>
        /\ \A c \in CategoryKeys :
               result.value[c] =
                   CitiesWhere(data,
                       LAMBDA row : ClaimedCategory(row.description, c))
        /\ \A k \in DOMAIN data :
               data[k].description = D_CloudyWithRain =>
                   /\ Occurrences(result.value["rain"], data[k].city) >= 1
                   /\ Len(result.value["clouds"]) 
                          = Cardinality({j \in DOMAIN data :
                                data[j].description = D_Overcast})

\* A "Cloudy With Rain" record alone: its city is under rain, not clouds.
C5_Witness ==
    /\ Called("categorize_weather")
    /\ Len(data) = 1
    /\ data[1].description = D_CloudyWithRain
    /\ result.value["rain"] = <<data[1].city>>
    /\ result.value["clouds"] = <<>>

----------------------------------------------------------------------------
(* C6 *)

\* The first bucket, in the order very_hot, hot, warm, moderate, cool, whose
\* threshold temp strictly exceeds; cold when it exceeds none.
FirstExceeded(temp) ==
    LET exceeded == {j \in 1..5 : temp > TEMP_RANGES[RangeOrder[j]]}
    IN  IF exceeded = {} THEN "cold"
        ELSE RangeOrder[CHOOSE j \in exceeded : \A i \in exceeded : j <= i]

AllRanged == ConcatLists(result.value, RangeOrder)

----------------------------------------------------------------------------
(* C7 *)

DescCol == Column(data, "description")

\* C7: get_weather_distribution has one entry per distinct exact
\* description, its count the number of records with that description (the
\* counts sum to the number of records), the entries in order of
\* non-increasing count and, for equal counts, of first appearance.
C7_Distribution ==
    (Called("get_weather_distribution") /\ data # <<>>) =>
        LET items == result.value
        IN  /\ {items[k].key : k \in DOMAIN items}
                   = {DescCol[k] : k \in DOMAIN DescCol}
            /\ \A i, j \in DOMAIN items :
                   items[i].key = items[j].key => i = j
            /\ \A k \in DOMAIN items :
                   items[k].count = Occurrences(DescCol, items[k].key)
            /\ SeriesSum(Column(items, "count")) = Len(data)
            /\ \A i, j \in DOMAIN items :
                   i < j =>
                       \/ items[i].count > items[j].count
                       \/ /\ items[i].count = items[j].count
                          /\ FirstIndex(DescCol, items[i].key)
                                 < FirstIndex(DescCol, items[j].key)

\* Descriptions that differ in case alone are two entries, the more frequent
\* one first although it appears later; two entries of equal count are in
\* order of appearance.
C7_Witness ==
    /\ Called("get_weather_distribution")
    /\ Len(data) = 3
    /\ DescCol = <<D_clear_sky, D_ClearSky, D_ClearSky>>
    /\ result.value = << [key |-> D_ClearSky, count |-> 2],
                         [key |-> D_clear_sky, count |-> 1] >>

----------------------------------------------------------------------------
(* C8 *)

\* The loader that matches a save.
MatchingLoader ==
    [save_to_csv |-> "load_from_csv", save_to_json |-> "load_from_json"]

\* The last operation was a load, the one before it a save in the same
\* format with the same filename argument, and the disk took the write.
LoadRightAfterSave ==
    /\ last_load # None
    /\ last_load.after # None
    /\ last_load.op = MatchingLoader[last_load.after.op]
    /\ last_load.filename = last_load.after.filename
    /\ last_load.after.io_ok

\* C8 as claimed: for every record set, the empty one included, and both
\* formats, a load with the matching loader right after a save returns the
\* saved records, equal in length, order and every field; it never returns
\* a not-found result or what an earlier save left.
C8_AsClaimed ==
    LoadRightAfterSave =>
        /\ ~last_load.ret.is_none
        /\ last_load.ret.rows = last_load.after.records

----------------------------------------------------------------------------
(* C9 *)

\* The messages the commands print with a check mark or at the end of the
\* workflow.
SuccessMessages == {"ok_saved", "ok_analysis_complete", "ok_workflow_finished"}

\* The conditions of C9 that occurred during the run.
ErrorConditions ==
    {"api_key_missing", "city_list_empty", "no_records_fetched",
     "data_save_io_failure", "report_save_io_failure"}

\* C9 as claimed: a command run during which the API key was missing, the
\* city list was empty, no record was fetched or a save of the data file or
\* of the report file met an I/O failure ends with a non-zero exit code and
\* prints no success message.
C9_AsClaimed ==
    (pc = "exited" /\ events \cap ErrorConditions # {}) =>
        /\ exit_code # 0
        /\ \A k \in DOMAIN echoed : echoed[k] \notin SuccessMessages

----------------------------------------------------------------------------
(* C10 *)

\* The records of the requests that resolved, in the order of the requests.
RecordsOfResolved(reqs) ==
    LET resolved == SelectSeq(reqs, LAMBDA r : Resolved(r.response))
    IN  [k \in DOMAIN resolved |->
            _parse_weather_data(resolved[k].response.body, resolved[k].city)]

\* C10: when fetch_multiple_cities returns, every city of the input list
\* has been requested, once and in input order, whatever the earlier
\* requests came to, and the list returned holds exactly one record for
\* each request that resolved (status 200 with a well-formed body), in
\* input order, and none for a request that failed.
C10_OneRecordPerResolvedCity ==
    pc = "fetched" =>
        /\ Len(requests) = Len(cities)
        /\ \A k \in DOMAIN cities : requests[k].city = strip(cities[k])
        /\ weather_data = RecordsOfResolved(requests)
        /\ Column(weather_data, "city")
               = Column(SelectSeq(requests, LAMBDA r : Resolved(r.response)),
                        "city")

\* The first request fails, the second resolves: both were made and the
\* list returned holds the second city's record alone.
C10_Witness ==
    /\ pc = "fetched"
    /\ Len(cities) = 2
    /\ Len(requests) = 2
    /\ ~Resolved(requests[1].response)
    /\ Resolved(requests[2].response)
    /\ Len(weather_data) = 1
    /\ weather_data[1].city = strip(cities[2])

----------------------------------------------------------------------------
(* C11 *)

\* Some record of the record set has no value in the field.
Lacks(field) == \E k \in DOMAIN data : isna(data[k][field])

\* The field each statistics operation aggregates.
StatsField ==
    [get_temperature_stats |-> "temperature",
     get_humidity_stats    |-> "humidity",
     get_wind_stats        |-> "wind_speed"]

\* C11 as claimed: when some record lacks a value for a numeric field, the
\* statistics over that field, and for the temperature the range buckets
\* too, fail with an error; they return no result computed by skipping the
\* record or by placing its city in a bucket.
C11_AsClaimed ==
    /\ \A op \in DOMAIN StatsField :
           (Called(op) /\ Lacks(StatsField[op])) => result.value = Raises
    /\ (Called("get_temperature_ranges") /\ Lacks("temperature")) =>
           result.value = Raises

----------------------------------------------------------------------------
(* C12 *)

\* The entries of the result of a statistics operation, and the entry a
\* median would have.
KeysOf(op) ==
    IF op = "get_humidity_stats"
    THEN [plain  |-> {"highest_humidity", "lowest_humidity",
                      "average_humidity", "highest_humidity_city",
                      "lowest_humidity_city"},
          median |-> "median_humidity"]
    ELSE [plain  |-> {"highest_wind", "lowest_wind", "average_wind",
                      "highest_wind_city", "lowest_wind_city"},
          median |-> "median_wind"]

HumidityAndWind == {"get_humidity_stats", "get_wind_stats"}

\* C12 as claimed: for every non-empty record set the results of
\* get_humidity_stats and get_wind_stats have the entries of
\* get_temperature_stats over their own field: highest, lowest, average,
\* median, highest-city and lowest-city.
C12_AsClaimed ==
    \A op \in HumidityAndWind :
        (Called(op) /\ data # <<>>) =>
            DOMAIN result.value = KeysOf(op).plain \cup {KeysOf(op).median}

\* C12 amended: for every non-empty record set, a result that
\* get_humidity_stats or get_wind_stats returns has exactly the entries
\* highest, lowest, average, highest-city and lowest-city over its own
\* field and no median; the highest and lowest are values of the field and
\* the two cities are cities of the record set.  (The call raises when no
\* record has a value in the field.)
C12_FiveEntries ==
    \A op \in HumidityAndWind :
        (Called(op) /\ data # <<>> /\ result.value # Raises) =>
            LET col  == Column(data, StatsField[op])
                keys == KeysOf(op).plain
                f    == IF op = "get_humidity_stats" THEN "humidity"
                        ELSE "wind"
            IN  /\ DOMAIN result.value = keys
                /\ \E k \in DOMAIN col :
                       result.value["highest_" \o f] = col[k]
                /\ \E k \in DOMAIN col :
                       result.value["lowest_" \o f] = col[k]
                /\ \E k \in DOMAIN data :
                       result.value["highest_" \o f \o "_city"] = data[k].city
                /\ \E k \in DOMAIN data :
                       result.value["lowest_" \o f \o "_city"] = data[k].city

\* The humidity statistics of two records with different humidities.
C12_Witness ==
    /\ Called("get_humidity_stats")
    /\ Len(data) = 2
    /\ Column(data, "humidity") = <<5000, 6000>>
    /\ DOMAIN result.value = KeysOf("get_humidity_stats").plain
    /\ result.value["highest_humidity"] = 6000
    /\ result.value["highest_humidity_city"] = data[2].city

----------------------------------------------------------------------------
(* C13 *)

\* The value is the bundle of what the standalone operations return on the
\* records df.
BundleOfStandalone(value, df) ==
    /\ DOMAIN value =
           {"temperature_stats", "humidity_stats", "wind_stats",
            "weather_categories", "weather_distribution",
            "temperature_ranges", "total_cities"}
    /\ value["temperature_stats"] = get_temperature_stats(df)
    /\ value["humidity_stats"] = get_humidity_stats(df)
    /\ value["wind_stats"] = get_wind_stats(df)
    /\ value["weather_categories"] = categorize_weather(df)
    /\ value["weather_distribution"] = get_weather_distribution(df)
    /\ value["temperature_ranges"] = get_temperature_ranges(df, TEMP_RANGES)
    /\ value["total_cities"] = Len(df)

----------------------------------------------------------------------------
(* C14 *)

\* The conditions on which fetch exits with an error.
FetchErrors ==
    {"api_key_missing", "city_list_empty", "no_records_fetched",
     "data_save_io_failure"}

\* The analyze step has loaded the data file (it does so first of all).
AnalyzeRan == last_load # None

\* C14 as claimed: in the run command, with either data format, the analyze
\* step starts only after the fetch step has saved its records without an
\* error, it is never executed when fetch exits with an error, and when it
\* is executed it loads exactly the records the fetch has just saved and
\* produces the report from them.
C14_AsClaimed ==
    command = "run" =>
        /\ pc = "analyze" =>
               /\ last_save # None
               /\ last_save.ret
               /\ last_save.records = weather_data
               /\ events = {}
        /\ events \cap FetchErrors # {} => ~AnalyzeRan
        /\ AnalyzeRan =>
               /\ last_load.after # None
               /\ ~last_load.ret.is_none
               /\ last_load.ret.rows = weather_data
               /\ data = weather_data
               /\ result.value = get_comprehensive_analysis(weather_data,
                                                            TEMP_RANGES)
               /\ \E k \in DOMAIN echoed : echoed[k] = "print_report"

----------------------------------------------------------------------------
(* C15 *)

\* The cities of the bullet lines of a section of a report, in order.
BulletsIn(report, section) ==
    LET lines == SelectSeq(report,
                     LAMBDA l : l.section = section /\ l.line.kind = "bullet")
    IN  [k \in DOMAIN lines |-> lines[k].line.city]

\* C15 as claimed: for every non-empty record set, the WEATHER CONDITIONS
\* section of the report has one bullet for the city of each record,
\* whichever of the five categories the record was classified into (a city
\* of one record appears exactly once).
C15_AsClaimed ==
    (Called("generate_report") /\ data # <<>>) =>
        LET bullets == BulletsIn(result.value, "WEATHER CONDITIONS")
        IN  \A k \in DOMAIN data :
                Occurrences(bullets, data[k].city)
                    = Occurrences(CityCol, data[k].city)

====
